---------------------------- MODULE Spec2Model ----------------------------
(*
  The live-conversation panel (LiveModule, src/unnamed/part_002 lines 1-237)
  as a state machine.  One action per handler of the component: the button's
  onClick (connect / disconnect), the two outcomes of getUserMedia, the
  session callbacks onopen / onmessage / onclose / onerror, the rejection of
  the promise returned by ai.live.connect, the ScriptProcessor callback, the
  setInterval callback, the continuation of playAudio after its await, the
  ended event of a buffer source, and the advance of the output clock.

  Every call of connect() gets an index k in 1..MaxConnects; the objects that
  call creates (two audio contexts, one media stream, one session) carry the
  same index.  The React refs hold such an index, 0 for null.  Time is
  counted in tenths of a second.
*)
EXTENDS Integers, Sequences, FiniteSets, TLC

\* ------------------------------------------------------------- bounds
\* the lifecycle specification (Spec): overlapping connect() calls, few messages
MaxConnects == 2
LifeMsgs == 1
\* the playback specification (SpecPlay): one connect() call, many messages
PlayConnects == 1
MaxMsgs == 3
\* the output clock stops here
MaxClock == 3

Max(a, b) == IF a >= b THEN a ELSE b

Min(a, b) == IF a <= b THEN a ELSE b

\* setLogs(prev => [msg, ...prev].slice(0, 5))
LogKeep == 5

\* durations of the decoded segments, tenths of a second: all of them in the
\* playback specification, one in the lifecycle specification
Durations == {3, 4, 5}

LifeDurations == {3}

Calls == 1..Max(MaxConnects, PlayConnects)

VARIABLES
  status,                 \* useState 'disconnected' | 'connecting' | 'connected'
  isConnected,            \* useState boolean
  logs,                   \* useState string[], newest first
  inputAudioContextRef,   \* index of the context in the ref, 0 = null
  outputAudioContextRef,
  streamRef,
  sessionPromiseRef,
  nextStartTimeRef,       \* the playback cursor
  sourcesRef,             \* Set<AudioBufferSourceNode>: records [id, start, dur, end]
  call,                   \* per connect() call: pc and the status its closure captured
  ctxIn, ctxOut,          \* per call: "none" | "running" | "closed"
  stream,                 \* per call: "none" | "live" | "stopped"
  session,                \* per call: state of the promise / session
  queued,                 \* sessions whose pending promise has a send callback attached
  processors,             \* input contexts a ScriptProcessor is attached to
  interval,               \* per call: "none" | "active" | "cleared"
  decoding,               \* playAudio calls suspended at the await: [id, dur]
  playing,                \* ids of the sources started and neither ended nor stopped
  stopped,                \* history: ids of the sources stop() was called on
  clock,                  \* currentTime of the context in outputAudioContextRef
  nmsg,                   \* messages received so far
  run,                    \* history: segments started since the cursor was last re-based
  runBase,                \* history: the cursor value at that re-base
  ev,                     \* history: the handler that ran last
  lim,                    \* the connect() calls, messages and durations a run may hold
  \* ChatModule (src/unnamed/part_004), mounted by App for CHAT, CODE and WRITE
  mode,                   \* App: currentMode; "LIVE" stands for the panels that are not ChatModule
  messages,               \* useState ChatMessage[]
  input,                  \* useState string
  selectedFile,           \* useState File | null: "none" or the kind of the file
  isLoading,              \* useState boolean
  useSearch,              \* useState boolean
  useThinking,            \* useState boolean
  useFast,                \* useState boolean
  sends,                  \* handleSend calls past line 68 that have not returned
  nsend,                  \* handleSend calls past line 68 so far
  \* AudioModule (src/unnamed/part_002, lines 238-402)
  buffer,                 \* the AudioBuffer handed to audioBufferToWav
  wav                     \* <<the ArrayBuffer it returned>>, empty before the call

vars == <<status, isConnected, logs, inputAudioContextRef, outputAudioContextRef,
          streamRef, sessionPromiseRef, nextStartTimeRef, sourcesRef, call,
          ctxIn, ctxOut, stream, session, queued, processors, interval,
          decoding, playing, stopped, clock, nmsg, run, runBase, ev, lim,
          mode, messages, input, selectedFile, isLoading, useSearch, useThinking,
          useFast, sends, nsend, buffer, wav>>

\* the variables of LiveModule
liveVars == <<status, isConnected, logs, inputAudioContextRef, outputAudioContextRef,
              streamRef, sessionPromiseRef, nextStartTimeRef, sourcesRef, call,
              ctxIn, ctxOut, stream, session, queued, processors, interval,
              decoding, playing, stopped, clock, nmsg, run, runBase, ev, lim>>

\* the variables of ChatModule
chatVars == <<mode, messages, input, selectedFile, isLoading, useSearch, useThinking,
              useFast, sends, nsend>>

\* the variables of audioBufferToWav
wavVars == <<buffer, wav>>

lifeVars == <<status, isConnected, inputAudioContextRef, outputAudioContextRef,
              streamRef, sessionPromiseRef, call, ctxIn, ctxOut, stream,
              session, queued, processors, interval>>

playVars == <<nextStartTimeRef, sourcesRef, decoding, playing, stopped, run, runBase>>

\* ------------------------------------------------------------ helpers
RECURSIVE SumDur(_)
SumDur(s) == IF s = <<>> THEN 0 ELSE Head(s).dur + SumDur(Tail(s))

\* the handlers that run disconnect()
Teardowns == {"disconnect", "onclose", "onerror", "handshakeError"}

\* the handlers of an error, a close or a failed connect
Failures == {"onclose", "onerror", "handshakeError", "handshakeRejected", "connectCatch"}

\* the record left in ev by a handler: its name, the call it belongs to, the
\* status when it started, the status under which it handed media to
\* sendRealtimeInput ("none" when it handed none) and whether that send threw.
\* Four fields carry history: afterFail (the handler before this one was a
\* send that threw), quiet (an error, close or failed connect has happened
\* and the user has not clicked connect since), intr (the output clock at
\* the last interrupt while no segment has been started since, else -1) and
\* left (the sessions a click on the button has closed)
EvF(op, k, sentIn, failed) ==
  [op |-> op, k |-> k, pre |-> status, sentIn |-> sentIn, failed |-> failed,
   afterFail |-> ev.failed,
   quiet |-> IF op \in Failures THEN TRUE
             ELSE IF op = "connect" THEN FALSE ELSE ev.quiet,
   intr |-> IF op = "interrupt" THEN clock
            ELSE IF op \in Teardowns \cup {"playAudioResume", "connect"} THEN -1
            ELSE ev.intr,
   left |-> IF /\ op = "disconnect"
               /\ sessionPromiseRef # 0
               /\ session[sessionPromiseRef] \in {"open", "pending"}
              THEN ev.left \cup {sessionPromiseRef} ELSE ev.left]

Ev(op, k, sentIn) == EvF(op, k, sentIn, FALSE)

addLog(msg, prev) == SubSeq(<<msg>> \o prev, 1, Min(LogKeep, Len(prev) + 1))

\* s.close() reached through sessionPromiseRef.current?.then(...): it closes an
\* open session now, and a session still being opened as soon as it opens
closeNicely(sess) ==
  IF sessionPromiseRef = 0 THEN sess
  ELSE [sess EXCEPT ![sessionPromiseRef] =
          CASE @ = "open" -> "closing"
            [] @ = "pending" -> "pendingClose"
            [] OTHER -> @]

stopTracks(str) ==
  IF streamRef = 0 THEN str
  ELSE [str EXCEPT ![streamRef] = IF @ = "live" THEN "stopped" ELSE @]

closeContext(ctx, ref) ==
  IF ref = 0 THEN ctx
  ELSE [ctx EXCEPT ![ref] = IF @ = "running" THEN "closed" ELSE @]

\* ------------------------------------------------------------ playback
\* stopAudioPlayback without line 163: the cursor keeps its value
stopAudioPlayback_keepCursor ==
  /\ playing' = playing \ {s.id : s \in sourcesRef}
  /\ stopped' = stopped \cup {s.id : s \in sourcesRef}
  /\ sourcesRef' = {}
  /\ nextStartTimeRef' = nextStartTimeRef
  /\ run' = <<>>
  /\ runBase' = nextStartTimeRef

\* stopAudioPlayback, lines 160-164
stopAudioPlayback ==
  /\ playing' = playing \ {s.id : s \in sourcesRef}
  /\ stopped' = stopped \cup {s.id : s \in sourcesRef}
  /\ sourcesRef' = {}
  /\ nextStartTimeRef' = 0
  /\ run' = <<>>
  /\ runBase' = 0

\* ---------------------------------------------------------- disconnect
\* disconnect without line 175: the playback state is left as it is
disconnect_noStop(sess) ==
  /\ session' = closeNicely(sess)
  /\ isConnected' = FALSE
  /\ status' = "disconnected"
  /\ stream' = stopTracks(stream)
  /\ ctxIn' = closeContext(ctxIn, inputAudioContextRef)
  /\ ctxOut' = closeContext(ctxOut, outputAudioContextRef)
  /\ UNCHANGED <<inputAudioContextRef, outputAudioContextRef, streamRef,
                 sessionPromiseRef, call, queued, processors, interval,
                 decoding, clock, nmsg, lim, chatVars, wavVars>>
  /\ UNCHANGED <<nextStartTimeRef, sourcesRef, playing, stopped, run, runBase>>

\* disconnect, lines 166-176
disconnect(sess) ==
  /\ session' = closeNicely(sess)
  /\ isConnected' = FALSE
  /\ status' = "disconnected"
  /\ stream' = stopTracks(stream)
  /\ ctxIn' = closeContext(ctxIn, inputAudioContextRef)
  /\ ctxOut' = closeContext(ctxOut, outputAudioContextRef)
  /\ stopAudioPlayback
  /\ UNCHANGED <<inputAudioContextRef, outputAudioContextRef, streamRef,
                 sessionPromiseRef, call, queued, processors, interval,
                 decoding, clock, nmsg, lim, chatVars, wavVars>>

\* ------------------------------------------------------------- connect
\* the index the next call of connect() gets
NextCall == Cardinality({k \in Calls : call[k].pc # "idle"}) + 1

\* connect(), lines 23-31: up to the await of getUserMedia
connect ==
  /\ NextCall <= lim.calls
  /\ LET k == NextCall IN
       /\ status' = "connecting"
       /\ logs' = addLog("Initializing audio contexts...", logs)
       /\ ctxIn' = [ctxIn EXCEPT ![k] = "running"]
       /\ ctxOut' = [ctxOut EXCEPT ![k] = "running"]
       /\ inputAudioContextRef' = k
       /\ outputAudioContextRef' = k
       /\ clock' = 0
       /\ call' = [call EXCEPT ![k] = [pc |-> "gum", status |-> status]]
       /\ ev' = Ev("connect", k, "none")
  /\ UNCHANGED <<isConnected, streamRef, sessionPromiseRef, stream, session,
                 queued, processors, interval, nmsg, lim, chatVars, wavVars>>
  /\ UNCHANGED playVars

\* connect(), lines 32-82: getUserMedia resolved
getUserMediaResolved(k) ==
  /\ call[k].pc = "gum"
  /\ call' = [call EXCEPT ![k].pc = "done"]
  /\ streamRef' = k
  /\ stream' = [stream EXCEPT ![k] = "live"]
  /\ logs' = addLog("Connecting to Gemini Live...", logs)
  /\ session' = [session EXCEPT ![k] = "pending"]
  /\ sessionPromiseRef' = k
  /\ ev' = Ev("getUserMediaResolved", k, "none")
  /\ UNCHANGED <<status, isConnected, inputAudioContextRef, outputAudioContextRef,
                 ctxIn, ctxOut, queued, processors, interval, clock, nmsg, lim, chatVars, wavVars>>
  /\ UNCHANGED playVars

\* the catch block without line 86: the status is left as it is
connectCatch_noStatus(k) ==
  /\ call[k].pc = "gum"
  /\ call' = [call EXCEPT ![k].pc = "failed"]
  /\ logs' = addLog("Error", logs)
  /\ status' = status
  /\ ev' = Ev("connectCatch", k, "none")
  /\ UNCHANGED <<isConnected, inputAudioContextRef, outputAudioContextRef,
                 streamRef, sessionPromiseRef, ctxIn, ctxOut, stream, session,
                 queued, processors, interval, clock, nmsg, lim, chatVars, wavVars>>
  /\ UNCHANGED playVars

\* connect(), lines 84-87: getUserMedia rejected, the catch block
connectCatch(k) ==
  /\ call[k].pc = "gum"
  /\ call' = [call EXCEPT ![k].pc = "failed"]
  /\ logs' = addLog("Error", logs)
  /\ status' = "disconnected"
  /\ ev' = Ev("connectCatch", k, "none")
  /\ UNCHANGED <<isConnected, inputAudioContextRef, outputAudioContextRef,
                 streamRef, sessionPromiseRef, ctxIn, ctxOut, stream, session,
                 queued, processors, interval, clock, nmsg, lim, chatVars, wavVars>>
  /\ UNCHANGED playVars

\* the button, line 212: onClick={isConnected ? disconnect : connect}
ClickConnect ==
  /\ ~isConnected
  /\ connect

ClickDisconnect ==
  /\ isConnected
  /\ disconnect(session)
  /\ ev' = Ev("disconnect", 0, "none")
  /\ UNCHANGED logs

\* ---------------------------------------------------- session callbacks
\* onopen, lines 46-52, with setupAudioInput (90-107) and startVideoStreaming
\* (109-113); the promise of ai.live.connect resolves right after it, which
\* runs the callbacks attached to it: queued sends, a queued close.
\* createMediaStreamSource on a context that was closed meanwhile may throw:
\* then the rest of onopen is skipped.
onopen(k) ==
  /\ session[k] \in {"pending", "pendingClose"}
  /\ logs' = addLog("Session Connected!", logs)
  /\ status' = "connected"
  /\ isConnected' = TRUE
  /\ \E threw \in (IF ctxIn[inputAudioContextRef] = "closed" THEN BOOLEAN ELSE {FALSE}) :
       /\ processors' = IF threw THEN processors
                        ELSE processors \cup {inputAudioContextRef}
       /\ interval' = IF threw THEN interval ELSE [interval EXCEPT ![k] = "active"]
  /\ session' = [session EXCEPT ![k] = IF @ = "pendingClose" THEN "closing" ELSE "open"]
  /\ queued' = queued \ {k}
  /\ ev' = Ev("onopen", k, IF k \in queued THEN "connected" ELSE "none")
  /\ UNCHANGED <<inputAudioContextRef, outputAudioContextRef, streamRef,
                 sessionPromiseRef, call, ctxIn, ctxOut, stream, clock, nmsg, lim, chatVars, wavVars>>
  /\ UNCHANGED playVars

\* onclose, lines 63-66
onclose(k) ==
  /\ session[k] \in {"open", "closing"}
  /\ logs' = addLog("Session Closed", logs)
  /\ disconnect([session EXCEPT ![k] = "closed"])
  /\ ev' = Ev("onclose", k, "none")

\* onerror without line 70: the error is logged and nothing is torn down
onerror_logOnly(k) ==
  /\ session[k] = "open"
  /\ logs' = addLog("Session Error (check console)", logs)
  /\ ev' = Ev("onerror", k, "none")
  /\ UNCHANGED <<status, isConnected, inputAudioContextRef, outputAudioContextRef,
                 streamRef, sessionPromiseRef, call, ctxIn, ctxOut, stream,
                 session, queued, processors, interval, clock, nmsg, lim, chatVars, wavVars>>
  /\ UNCHANGED playVars

\* onerror, lines 67-71
onerror(k) ==
  /\ session[k] = "open"
  /\ logs' = addLog("Session Error (check console)", logs)
  /\ disconnect(session)
  /\ ev' = Ev("onerror", k, "none")

\* the promise returned by ai.live.connect (line 43) rejects: nothing awaits it
\* and nothing catches it; the SDK may or may not call onerror as well
handshakeRejected(k, withOnerror) ==
  /\ session[k] \in {"pending", "pendingClose"}
  /\ IF withOnerror
       THEN /\ logs' = addLog("Session Error (check console)", logs)
            /\ disconnect([session EXCEPT ![k] = "rejected"])
       ELSE /\ session' = [session EXCEPT ![k] = "rejected"]
            /\ UNCHANGED <<logs, status, isConnected, inputAudioContextRef,
                           outputAudioContextRef, streamRef, sessionPromiseRef,
                           call, ctxIn, ctxOut, stream, queued, processors,
                           interval, clock, nmsg, lim, chatVars, wavVars>>
            /\ UNCHANGED playVars
  /\ ev' = Ev(IF withOnerror THEN "handshakeError" ELSE "handshakeRejected", k, "none")

\* ------------------------------------------------------ media producers
\* sessionPromiseRef.current?.then(session => session.sendRealtimeInput(..)),
\* lines 100-102 and 125-129: the status under which the media is handed to
\* the session, "none" when the promise is pending (the callback waits) or
\* rejected (the callback never runs)
sendVia(r) ==
  IF r # 0 /\ session[r] \in {"open", "closing", "closed"} THEN status ELSE "none"

waitsFor(r) ==
  IF r # 0 /\ session[r] \in {"pending", "pendingClose"} THEN {r} ELSE {}

\* onaudioprocess where a send that throws is treated as a session error:
\* it runs disconnect()
onaudioprocess_throwTearsDown(c) ==
  /\ c \in processors
  /\ ctxIn[c] = "running"
  /\ \E threw \in (IF sendVia(sessionPromiseRef) # "none" THEN BOOLEAN ELSE {FALSE}) :
       /\ ev' = EvF("onaudioprocess", c, sendVia(sessionPromiseRef), threw)
       /\ IF threw
            THEN disconnect(session)
            ELSE /\ queued' = queued \cup waitsFor(sessionPromiseRef)
                 /\ UNCHANGED <<status, isConnected, inputAudioContextRef,
                                outputAudioContextRef, streamRef, sessionPromiseRef,
                                call, ctxIn, ctxOut, stream, session, processors,
                                interval, clock, nmsg, lim, chatVars, wavVars>>
                 /\ UNCHANGED playVars
  /\ UNCHANGED logs

\* processor.onaudioprocess, lines 96-103: fires while its context runs.  The
\* send runs inside the then-callback of the session promise: when
\* sendRealtimeInput throws there, the promise returned by then() rejects
\* with no handler attached, and nothing else happens
onaudioprocess(c) ==
  /\ c \in processors
  /\ ctxIn[c] = "running"
  /\ queued' = queued \cup waitsFor(sessionPromiseRef)
  /\ \E threw \in (IF sendVia(sessionPromiseRef) # "none" THEN BOOLEAN ELSE {FALSE}) :
       ev' = EvF("onaudioprocess", c, sendVia(sessionPromiseRef), threw)
  /\ UNCHANGED <<logs, status, isConnected, inputAudioContextRef,
                 outputAudioContextRef, streamRef, sessionPromiseRef, call,
                 ctxIn, ctxOut, stream, session, processors, interval, clock, nmsg, lim, chatVars, wavVars>>
  /\ UNCHANGED playVars

\* the setInterval callback without line 115: it returns without clearInterval
intervalTick_noClear(k) ==
  /\ interval[k] = "active"
  /\ IF call[k].status # "connected"
       THEN /\ interval' = interval
            /\ queued' = queued
            /\ ev' = Ev("intervalTick", k, "none")
       ELSE /\ interval' = interval
            /\ queued' = queued \cup waitsFor(sessionPromiseRef)
            /\ ev' = Ev("intervalTick", k, sendVia(sessionPromiseRef))
  /\ UNCHANGED <<logs, status, isConnected, inputAudioContextRef,
                 outputAudioContextRef, streamRef, sessionPromiseRef, call,
                 ctxIn, ctxOut, stream, session, processors, clock, nmsg, lim, chatVars, wavVars>>
  /\ UNCHANGED playVars

\* the setInterval callback, lines 113-131.  `status` is the constant of the
\* render whose connect() created this closure: call[k].status
intervalTick(k) ==
  /\ interval[k] = "active"
  /\ IF call[k].status # "connected"
       THEN /\ interval' = [interval EXCEPT ![k] = "cleared"]
            /\ queued' = queued
            /\ ev' = Ev("intervalTick", k, "none")
       ELSE /\ interval' = interval
            /\ queued' = queued \cup waitsFor(sessionPromiseRef)
            /\ ev' = Ev("intervalTick", k, sendVia(sessionPromiseRef))
  /\ UNCHANGED <<logs, status, isConnected, inputAudioContextRef,
                 outputAudioContextRef, streamRef, sessionPromiseRef, call,
                 ctxIn, ctxOut, stream, session, processors, clock, nmsg, lim, chatVars, wavVars>>
  /\ UNCHANGED playVars

\* ------------------------------------------------------ server messages
\* onmessage, lines 53-62, with the part of playAudio before its await
\* (lines 135-138).  d = 0: the message carries no audio.
onmessage(k, d, interrupted) ==
  /\ session[k] \in {"open", "closing"}
  /\ nmsg < lim.msgs
  /\ d # 0 \/ interrupted
  /\ nmsg' = nmsg + 1
  /\ decoding' = IF d # 0 /\ outputAudioContextRef # 0
                   THEN decoding \cup {[id |-> nmsg + 1, dur |-> d]}
                   ELSE decoding
  /\ IF interrupted
       THEN /\ logs' = addLog("Interrupted by user", logs)
            /\ stopAudioPlayback
       ELSE /\ logs' = logs
            /\ nextStartTimeRef' = Max(nextStartTimeRef, clock)
            /\ run' = IF clock > nextStartTimeRef THEN <<>> ELSE run
            /\ runBase' = IF clock > nextStartTimeRef THEN clock ELSE runBase
            /\ UNCHANGED <<sourcesRef, playing, stopped>>
  /\ ev' = Ev(IF interrupted THEN "interrupt" ELSE "audio", k, "none")
  /\ UNCHANGED <<status, isConnected, inputAudioContextRef, outputAudioContextRef,
                 streamRef, sessionPromiseRef, call, ctxIn, ctxOut, stream,
                 session, queued, processors, interval, clock, lim, chatVars, wavVars>>

\* playAudioResume without line 152: the cursor is not advanced
playAudioResume_noAdvance(seg) ==
  /\ seg \in decoding
  /\ decoding' = decoding \ {seg}
  /\ sourcesRef' = sourcesRef \cup
       {[id |-> seg.id, start |-> nextStartTimeRef, dur |-> seg.dur,
         end |-> Max(nextStartTimeRef, clock) + seg.dur]}
  /\ playing' = playing \cup {seg.id}
  /\ nextStartTimeRef' = nextStartTimeRef
  /\ run' = Append(run, [start |-> nextStartTimeRef, dur |-> seg.dur])
  /\ runBase' = runBase
  /\ stopped' = stopped
  /\ ev' = Ev("playAudioResume", seg.id, "none")
  /\ UNCHANGED <<logs, nmsg, clock, lim, chatVars, wavVars>>
  /\ UNCHANGED lifeVars

\* playAudio after the await without line 157: the source is not tracked
playAudioResume_noTrack(seg) ==
  /\ seg \in decoding
  /\ decoding' = decoding \ {seg}
  /\ sourcesRef' = sourcesRef
  /\ playing' = playing \cup {seg.id}
  /\ nextStartTimeRef' = nextStartTimeRef + seg.dur
  /\ run' = Append(run, [start |-> nextStartTimeRef, dur |-> seg.dur])
  /\ runBase' = runBase
  /\ stopped' = stopped
  /\ ev' = Ev("playAudioResume", seg.id, "none")
  /\ UNCHANGED <<logs, nmsg, clock, lim, chatVars, wavVars>>
  /\ UNCHANGED lifeVars

\* playAudio after the await of decodeAudioData, lines 147-157
playAudioResume(seg) ==
  /\ seg \in decoding
  /\ decoding' = decoding \ {seg}
  /\ sourcesRef' = sourcesRef \cup
       {[id |-> seg.id, start |-> nextStartTimeRef, dur |-> seg.dur,
         end |-> Max(nextStartTimeRef, clock) + seg.dur]}
  /\ playing' = playing \cup {seg.id}
  /\ nextStartTimeRef' = nextStartTimeRef + seg.dur
  /\ run' = Append(run, [start |-> nextStartTimeRef, dur |-> seg.dur])
  /\ runBase' = runBase
  /\ stopped' = stopped
  /\ ev' = Ev("playAudioResume", seg.id, "none")
  /\ UNCHANGED <<logs, nmsg, clock, lim, chatVars, wavVars>>
  /\ UNCHANGED lifeVars

\* source.onended, lines 154-156: the segment played to its end
onended(src) ==
  /\ src \in sourcesRef
  /\ src.id \in playing
  /\ outputAudioContextRef # 0
  /\ ctxOut[outputAudioContextRef] = "running"
  /\ clock >= src.end
  /\ sourcesRef' = sourcesRef \ {src}
  /\ playing' = playing \ {src.id}
  /\ ev' = Ev("onended", src.id, "none")
  /\ UNCHANGED <<nextStartTimeRef, decoding, stopped, run, runBase, logs, nmsg,
                 clock, lim, chatVars, wavVars>>
  /\ UNCHANGED lifeVars

\* the output context's clock advances while the context runs
tick ==
  /\ outputAudioContextRef # 0
  /\ ctxOut[outputAudioContextRef] = "running"
  /\ clock < MaxClock
  /\ clock' = clock + 1
  /\ ev' = Ev("tick", 0, "none")
  /\ UNCHANGED <<logs, nmsg, lim, chatVars, wavVars>>
  /\ UNCHANGED lifeVars
  /\ UNCHANGED playVars

\* ChatModule as mounted: the useState initial values, lines 11-19
ChatStart ==
  /\ mode = "CHAT"
  /\ messages = <<>>
  /\ input = ""
  /\ selectedFile = "none"
  /\ isLoading = FALSE
  /\ useSearch = FALSE
  /\ useThinking = FALSE
  /\ useFast = FALSE
  /\ sends = {}
  /\ nsend = 0

\* no buffer converted
WavIdle ==
  /\ buffer = [numberOfChannels |-> 1, length |-> 0, sampleRate |-> 24000, seed |-> 0]
  /\ wav = <<>>

Start ==
  /\ status = "disconnected"
  /\ isConnected = FALSE
  /\ logs = <<>>
  /\ inputAudioContextRef = 0
  /\ outputAudioContextRef = 0
  /\ streamRef = 0
  /\ sessionPromiseRef = 0
  /\ nextStartTimeRef = 0
  /\ sourcesRef = {}
  /\ call = [k \in Calls |-> [pc |-> "idle", status |-> "disconnected"]]
  /\ ctxIn = [k \in Calls |-> "none"]
  /\ ctxOut = [k \in Calls |-> "none"]
  /\ stream = [k \in Calls |-> "none"]
  /\ session = [k \in Calls |-> "none"]
  /\ queued = {}
  /\ processors = {}
  /\ interval = [k \in Calls |-> "none"]
  /\ decoding = {}
  /\ playing = {}
  /\ stopped = {}
  /\ clock = 0
  /\ nmsg = 0
  /\ run = <<>>
  /\ runBase = 0
  /\ ev = [op |-> "init", k |-> 0, pre |-> "disconnected", sentIn |-> "none",
           failed |-> FALSE, afterFail |-> FALSE, quiet |-> FALSE, intr |-> -1,
           left |-> {}]

Next ==
  \/ ClickConnect
  \/ ClickDisconnect
  \/ \E k \in Calls : getUserMediaResolved(k)
  \/ \E k \in Calls : connectCatch(k)
  \/ \E k \in Calls : onopen(k)
  \/ \E k \in Calls : onclose(k)
  \/ \E k \in Calls : onerror(k)
  \/ \E k \in Calls : \E e \in BOOLEAN : handshakeRejected(k, e)
  \/ \E c \in Calls : onaudioprocess(c)
  \/ \E k \in Calls : intervalTick(k)
  \/ \E k \in Calls : \E d \in lim.durs \cup {0} : \E i \in BOOLEAN : onmessage(k, d, i)
  \/ \E seg \in decoding : playAudioResume(seg)
  \/ \E src \in sourcesRef : onended(src)
  \/ tick

Init ==
  /\ Start
  /\ lim = [calls |-> MaxConnects, msgs |-> LifeMsgs, durs |-> LifeDurations]
  /\ ChatStart
  /\ WavIdle

InitPlay ==
  /\ Start
  /\ lim = [calls |-> PlayConnects, msgs |-> MaxMsgs, durs |-> Durations]
  /\ ChatStart
  /\ WavIdle

Spec == Init /\ [][Next]_vars

SpecPlay == InitPlay /\ [][Next]_vars

\* =====================================================================
\* audioBufferToWav (src/unnamed/part_002, lines 351-402)
\* =====================================================================

\* the longest buffer converted, in sample frames
MaxFrames == 46

MaxChannels == 2

\* samples are held in quarters: 4 stands for 1.0
Quarter == 4

\* the sample values a buffer holds: -1.5 -1.0 -0.75 -0.5 0.0 0.25 1.5
SampleValues == <<-6, -4, -3, -2, 0, 1, 6>>

\* buffer.getChannelData(j)[k]: the buffers differ by where in SampleValues
\* their first sample lies
getChannelData(b, j, k) == SampleValues[((k + j + b.seed) % Len(SampleValues)) + 1]

\* x | 0 for a quotient a / d: truncation towards zero
TruncDiv(a, d) == IF a >= 0 THEN a \div d ELSE -((-a) \div d)

\* DataView.setInt16 keeps the low 16 bits, two's complement
ToInt16(x) == ((x + 32768) % 65536) - 32768

\* lines 384-385: clamp to [-1, 1], then
\* (0.5 + sample < 0 ? sample * 32768 : sample * 32767) | 0
scaleSample(v) ==
  LET sample == Max(-Quarter, Min(Quarter, v))
  IN  IF 2 * sample + Quarter < 0
        THEN TruncDiv(sample * 32768, Quarter)
        ELSE TruncDiv(sample * 32767, Quarter)

\* setUint16 / setUint32, lines 394-401: write at pos, advance pos
setUint(st, width, data) ==
  [pos |-> st.pos + width,
   fields |-> [p \in DOMAIN st.fields \cup {st.pos} |->
                 IF p = st.pos THEN [width |-> width, data |-> data]
                 ELSE st.fields[p]]]

\* lines 362-377: the header, written field by field through the shared pos
writeHeader(b, length) ==
  LET numOfChan == b.numberOfChannels
      h0  == [pos |-> 0, fields |-> [p \in {} |-> 0]]
      h1  == setUint(h0, 4, 1179011410)
      h2  == setUint(h1, 4, length - 8)
      h3  == setUint(h2, 4, 1163280727)
      h4  == setUint(h3, 4, 544501094)
      h5  == setUint(h4, 4, 16)
      h6  == setUint(h5, 2, 1)
      h7  == setUint(h6, 2, numOfChan)
      h8  == setUint(h7, 4, b.sampleRate)
      h9  == setUint(h8, 4, b.sampleRate * 2 * numOfChan)
      h10 == setUint(h9, 2, numOfChan * 2)
      h11 == setUint(h10, 2, 16)
      h12 == setUint(h11, 4, 1635017060)
  IN  setUint(h12, 4, length - h12.pos - 4)

\* lines 383-388: the samples of frame pos, channel i onwards, written at
\* 44 + offset; data[s] is the 16-bit value at byte 44 + 2 * s
RECURSIVE interleave(_, _, _, _, _)
interleave(b, pos, i, offset, data) ==
  IF i < b.numberOfChannels
    THEN interleave(b, pos, i + 1, offset + 2,
           [data EXCEPT ![offset \div 2] = ToInt16(scaleSample(getChannelData(b, i, pos)))])
    ELSE [offset |-> offset, data |-> data]

\* lines 382-390: while (pos < buffer.length), with the pos the header left
RECURSIVE writeFrames(_, _, _, _)
writeFrames(b, pos, offset, data) ==
  IF pos < b.length
    THEN LET f == interleave(b, pos, 0, offset, data)
         IN  writeFrames(b, pos + 1, f.offset, f.data)
    ELSE data

\* audioBufferToWav, lines 351-392: the ArrayBuffer starts zeroed
audioBufferToWav(b) ==
  LET numOfChan == b.numberOfChannels
      length == b.length * numOfChan * 2 + 44
      header == writeHeader(b, length)
      zeroed == [s \in 0..(b.length * numOfChan - 1) |-> 0]
  IN  [byteLength |-> length,
       fields |-> header.fields,
       data |-> writeFrames(b, header.pos, 0, zeroed)]

\* handleTTS, lines 254-256: the buffer generateSpeech returned is converted
convert ==
  /\ wav = <<>>
  /\ wav' = <<audioBufferToWav(buffer)>>
  /\ UNCHANGED buffer
  /\ UNCHANGED liveVars
  /\ UNCHANGED chatVars

\* handleTTS is called again, line 252: the previous result is dropped
handleTTS ==
  /\ wav # <<>>
  /\ wav' = <<>>
  /\ \E n \in 0..MaxFrames : \E c \in 1..MaxChannels : \E sd \in 0..(Len(SampleValues) - 1) :
       buffer' = [numberOfChannels |-> c, length |-> n, sampleRate |-> 24000, seed |-> sd]
  /\ UNCHANGED liveVars
  /\ UNCHANGED chatVars

NextWav == convert \/ handleTTS

InitWav ==
  /\ Start
  /\ lim = [calls |-> 0, msgs |-> 0, durs |-> {}]
  /\ ChatStart
  /\ wav = <<>>
  /\ \E n \in 0..MaxFrames : \E c \in 1..MaxChannels : \E sd \in 0..(Len(SampleValues) - 1) :
       buffer = [numberOfChannels |-> c, length |-> n, sampleRate |-> 24000, seed |-> sd]

SpecWav == InitWav /\ [][NextWav]_vars

\* =====================================================================
\* ChatModule (src/unnamed/part_004) and sendChatMessage (src/unnamed/part_005)
\* =====================================================================

\* the handleSend calls a run may hold
MaxSends == 2

\* the panels of App: ChatModule serves the chat modes, "LIVE" stands for
\* the panels that replace it
ChatModes == {"CHAT", "CODE", "WRITE"}

AppModes == ChatModes \cup {"LIVE"}

\* what the user may have typed
Inputs == {"", "hi"}

\* the kind of file attached, of those the file input accepts (line 268)
Files == {"image"}

\* how generateContent may settle: a response with or without text, an
\* error with or without a message
Outcomes ==
  {[ok |-> TRUE, text |-> "hello"], [ok |-> TRUE, text |-> ""],
   [ok |-> FALSE, text |-> "quota"], [ok |-> FALSE, text |-> ""]}

\* String.prototype.trim: a blank text becomes empty
trim(t) == IF t = " " THEN "" ELSE t

\* handleSend, lines 99-101
modelType(search, fast) ==
  IF fast THEN "gemini-flash-lite-latest"
  ELSE IF search THEN "gemini-3-flash-preview"
  ELSE "gemini-3-pro-preview"

\* sendChatMessage, lines 30-43: the model name and the config of the request
requestConfig(type, isThinkingMode) ==
  [model |-> IF isThinkingMode THEN "gemini-3-pro-preview" ELSE type,
   thinkingBudget |-> isThinkingMode,
   googleSearch |-> ~isThinkingMode /\ type = "gemini-3-flash-preview"]

\* lines 84-90: the user message of a handleSend call.  A text is held as the
\* sequence of its pieces; req and sentIn are history: the call the message
\* belongs to and the mode of the render that call came from
userMsg(r) ==
  [role |-> "user", text |-> <<r.text>>, media |-> r.file, req |-> r.id,
   sentIn |-> r.mode]

\* lines 113-126 with line 70 of sendChatMessage: the model message of a
\* settled request (ok is history: whether the request succeeded)
modelMsg(r, o) ==
  [role |-> "model",
   text |-> IF o.ok
              THEN <<IF o.text # "" THEN o.text ELSE "No text response generated.">>
              ELSE <<"Error: ", IF o.text # "" THEN o.text ELSE "Something went wrong.">>,
   media |-> "none", req |-> r.id, sentIn |-> r.mode, ok |-> o.ok]

\* the closure of a handleSend call: the state of the render it came from
closure(id, pc) ==
  [id |-> id, pc |-> pc, text |-> input, file |-> selectedFile, mode |-> mode,
   useSearch |-> useSearch, useThinking |-> useThinking, useFast |-> useFast,
   config |-> requestConfig(modelType(useSearch, useFast), useThinking)]

\* handleSend, lines 84-111: from the user message to the await of
\* sendChatMessage, which builds the request before its own await
sendRequest(r) ==
  /\ messages' = Append(messages, userMsg(r))
  /\ input' = ""
  /\ selectedFile' = "none"
  /\ isLoading' = TRUE
  /\ sends' = (sends \ {r}) \cup {[r EXCEPT !.pc = "sending"]}

\* handleSend, lines 67-111, called by Enter or by the send button: up to
\* its first await
handleSend ==
  /\ mode \in ChatModes
  /\ IF (trim(input) = "" /\ selectedFile = "none") \/ isLoading
       THEN UNCHANGED <<messages, input, selectedFile, isLoading, sends, nsend>>
       ELSE /\ nsend < MaxSends
            /\ nsend' = nsend + 1
            /\ IF selectedFile # "none"
                 THEN /\ sends' = sends \cup {closure(nsend + 1, "encoding")}
                      /\ UNCHANGED <<messages, input, selectedFile, isLoading>>
                 ELSE sendRequest(closure(nsend + 1, "sending"))
  /\ UNCHANGED <<mode, useSearch, useThinking, useFast>>
  /\ UNCHANGED liveVars
  /\ UNCHANGED wavVars

\* fileToBase64 resolved, lines 75-111
fileToBase64Resolved(r) ==
  /\ r \in sends
  /\ r.pc = "encoding"
  /\ sendRequest(r)
  /\ UNCHANGED <<mode, useSearch, useThinking, useFast, nsend>>
  /\ UNCHANGED liveVars
  /\ UNCHANGED wavVars

\* fileToBase64 rejected, lines 78-81: handleSend returns
fileToBase64Rejected(r) ==
  /\ r \in sends
  /\ r.pc = "encoding"
  /\ sends' = sends \ {r}
  /\ UNCHANGED <<mode, messages, input, selectedFile, isLoading, useSearch,
                 useThinking, useFast, nsend>>
  /\ UNCHANGED liveVars
  /\ UNCHANGED wavVars

\* sendChatMessage settled, lines 113-129
settled(r, o) ==
  /\ r \in sends
  /\ r.pc = "sending"
  /\ messages' = Append(messages, modelMsg(r, o))
  /\ isLoading' = FALSE
  /\ sends' = sends \ {r}
  /\ UNCHANGED <<mode, input, selectedFile, useSearch, useThinking, useFast, nsend>>
  /\ UNCHANGED liveVars
  /\ UNCHANGED wavVars

\* textarea onChange, line 255
setInput(t) ==
  /\ mode \in ChatModes
  /\ t # input
  /\ input' = t
  /\ UNCHANGED <<mode, messages, selectedFile, isLoading, useSearch, useThinking,
                 useFast, sends, nsend>>
  /\ UNCHANGED liveVars
  /\ UNCHANGED wavVars

\* file input onChange and the close button of the file chip, lines 247, 269
setSelectedFile(f) ==
  /\ mode \in ChatModes
  /\ f # selectedFile
  /\ selectedFile' = f
  /\ UNCHANGED <<mode, messages, input, isLoading, useSearch, useThinking,
                 useFast, sends, nsend>>
  /\ UNCHANGED liveVars
  /\ UNCHANGED wavVars

\* the Reasoning button, line 150
ClickReasoning ==
  /\ mode \in ChatModes
  /\ useThinking' = ~useThinking
  /\ IF ~useThinking
       THEN useFast' = FALSE /\ useSearch' = FALSE
       ELSE UNCHANGED <<useFast, useSearch>>
  /\ UNCHANGED <<mode, messages, input, selectedFile, isLoading, sends, nsend>>
  /\ UNCHANGED liveVars
  /\ UNCHANGED wavVars

\* the Search button without its if: the other options stay as they are
ClickSearch_keepOthers ==
  /\ mode \in ChatModes
  /\ useSearch' = ~useSearch
  /\ UNCHANGED <<useFast, useThinking>>
  /\ UNCHANGED <<mode, messages, input, selectedFile, isLoading, sends, nsend>>
  /\ UNCHANGED liveVars
  /\ UNCHANGED wavVars

\* the Search button, line 156
ClickSearch ==
  /\ mode \in ChatModes
  /\ useSearch' = ~useSearch
  /\ IF ~useSearch
       THEN useFast' = FALSE /\ useThinking' = FALSE
       ELSE UNCHANGED <<useFast, useThinking>>
  /\ UNCHANGED <<mode, messages, input, selectedFile, isLoading, sends, nsend>>
  /\ UNCHANGED liveVars
  /\ UNCHANGED wavVars

\* the Fast button, line 162
ClickFast ==
  /\ mode \in ChatModes
  /\ useFast' = ~useFast
  /\ IF ~useFast
       THEN useThinking' = FALSE /\ useSearch' = FALSE
       ELSE UNCHANGED <<useThinking, useSearch>>
  /\ UNCHANGED <<mode, messages, input, selectedFile, isLoading, sends, nsend>>
  /\ UNCHANGED liveVars
  /\ UNCHANGED wavVars

\* Sidebar setMode (part_001, line 33) with renderContent (part_000, lines
\* 13-25): between chat modes the ChatModule instance stays and its effect on
\* [mode] runs (lines 57-61); leaving for another panel unmounts it, which
\* drops its state and makes the setters of its pending calls do nothing;
\* coming back mounts a new instance
setMode(m) ==
  /\ m # mode
  /\ mode' = m
  /\ IF m \in ChatModes /\ mode \in ChatModes
       THEN /\ messages' = <<>>
            /\ useSearch' = FALSE
            /\ useThinking' = FALSE
            /\ UNCHANGED <<input, selectedFile, isLoading, useFast, sends, nsend>>
       ELSE /\ messages' = <<>>
            /\ input' = ""
            /\ selectedFile' = "none"
            /\ isLoading' = FALSE
            /\ useSearch' = FALSE
            /\ useThinking' = FALSE
            /\ useFast' = FALSE
            /\ sends' = {}
            /\ nsend' = nsend
  /\ UNCHANGED liveVars
  /\ UNCHANGED wavVars

NextChat ==
  \/ handleSend
  \/ \E r \in sends : fileToBase64Resolved(r)
  \/ \E r \in sends : fileToBase64Rejected(r)
  \/ \E r \in sends : \E o \in Outcomes : settled(r, o)
  \/ \E t \in Inputs : setInput(t)
  \/ \E f \in Files \cup {"none"} : setSelectedFile(f)
  \/ ClickReasoning
  \/ ClickSearch
  \/ ClickFast
  \/ \E m \in AppModes : setMode(m)

InitChat ==
  /\ Start
  /\ lim = [calls |-> 0, msgs |-> 0, durs |-> {}]
  /\ ChatStart
  /\ WavIdle

SpecChat == InitChat /\ [][NextChat]_vars

\* =====================================================================
\* Properties
\* =====================================================================

\* C1 -- gapless scheduling.  `run` holds, in the order they were started, the
\* segments started since the cursor was last re-based (by an interrupt, a
\* disconnect, or a message that found the output clock ahead of the cursor);
\* runBase is the cursor at that point, max(cursor, clock) for a message.
\* The first segment of the run starts at runBase, each later one starts where
\* the one before it ends, and the cursor is runBase plus the sum of the
\* durations of the run.
C1_Gapless ==
  /\ \A i \in 1..(Len(run) - 1) : run[i + 1].start = run[i].start + run[i].dur
  /\ run # <<>> => run[1].start = runBase
  /\ nextStartTimeRef = runBase + SumDur(run)

\* the example of the specification: 0.5 s, 0.3 s, 0.4 s with the clock at 0
C1_Witness ==
  /\ run = <<[start |-> 0, dur |-> 5], [start |-> 5, dur |-> 3], [start |-> 8, dur |-> 4]>>
  /\ nextStartTimeRef = 12
  /\ clock = 0

\* C2 -- after the handler of a message with serverContent.interrupted, no
\* source is tracked, none that was started is still playing, and the cursor
\* is zero, whatever was scheduled, playing or being decoded.
C2_InterruptClears ==
  ev.op = "interrupt" =>
    /\ sourcesRef = {}
    /\ playing = {}
    /\ nextStartTimeRef = 0

\* two segments were playing and a third is being decoded when the interrupt ran
C2_Witness ==
  /\ ev.op = "interrupt"
  /\ status = "connected"
  /\ stopped = {1, 2}
  /\ \E d \in Durations : decoding = {[id |-> 3, dur |-> d]}
  /\ sourcesRef = {}

\* C3 -- after every handler that runs disconnect(), from whatever status, the
\* status is 'disconnected', no source is tracked and the cursor is zero.
C3_DisconnectAnyState ==
  ev.op \in Teardowns =>
    /\ status = "disconnected"
    /\ sourcesRef = {}
    /\ nextStartTimeRef = 0

\* disconnect() ran again when the panel was already torn down
C3_Witness ==
  /\ ev.op = "onclose"
  /\ ev.pre = "disconnected"
  /\ stopped # {}
  /\ status = "disconnected"

\* C4 -- while the status is 'connected' both producers run: an audio callback
\* hands its chunk to the session, a tick of the video interval hands a frame
\* to the session and leaves the interval running.
C4_ProducersRunWhileConnected ==
  /\ (ev.op = "onaudioprocess" /\ ev.pre = "connected") => ev.sentIn = "connected"
  /\ (ev.op = "intervalTick" /\ ev.pre = "connected") =>
       /\ ev.sentIn = "connected"
       /\ interval[ev.k] = "active"

\* C5 -- the video interval ends itself: a tick that finds the status other
\* than 'connected' hands no frame to the session and clears its interval, and
\* a cleared interval stays cleared and never ticks again.
C5_IntervalSelfTerminates ==
  [][ /\ (ev'.op = "intervalTick" /\ status # "connected") =>
           /\ ev'.sentIn = "none"
           /\ interval'[ev'.k] = "cleared"
      /\ \A k \in Calls :
           interval[k] = "cleared" =>
             /\ interval'[k] = "cleared"
             /\ ~(ev'.op = "intervalTick" /\ ev'.k = k) ]_vars

\* a tick fired after the panel had left 'connected', and cleared its interval
C5_Witness ==
  /\ ev.op = "intervalTick"
  /\ ev.pre = "disconnected"
  /\ session[ev.k] \in {"closing", "closed"}
  /\ interval[ev.k] = "cleared"

\* C6 -- media is handed to sendRealtimeInput only while the status is
\* 'connected'.
C6_MediaOnlyWhileConnected == ev.sentIn \in {"none", "connected"}

\* C7 -- when getUserMedia rejects, the catch block leaves the status
\* 'disconnected' and an error line at the head of the log, opens no session
\* and starts no new connect() call; the failed call never proceeds.
C7_MediaDenied ==
  [][ /\ ev'.op = "connectCatch" =>
           /\ status' = "disconnected"
           /\ logs' # <<>> /\ Head(logs') = "Error"
           /\ session' = session
           /\ sessionPromiseRef' = sessionPromiseRef
           /\ NextCall' = NextCall
      /\ \A k \in Calls :
           call[k].pc = "failed" => (call'[k].pc = "failed" /\ session'[k] = "none") ]_vars

\* getUserMedia was denied while the panel was connecting
C7_Witness ==
  /\ ev.op = "connectCatch"
  /\ ev.pre = "connecting"
  /\ call[ev.k].pc = "failed"
  /\ status = "disconnected"
  /\ Head(logs) = "Error"

\* C8 -- when the promise of ai.live.connect rejects, with or without a call
\* of onerror, the status is 'disconnected' and a message is at the head of
\* the log.
C8_HandshakeFailure ==
  ev.op \in {"handshakeRejected", "handshakeError"} =>
    /\ status = "disconnected"
    /\ logs # <<>>
    /\ Head(logs) \in {"Error", "Session Error (check console)"}

\* the panel's own resources are released: the stream, the contexts and the
\* playback state the refs hold
TornDown ==
  /\ status = "disconnected"
  /\ ~isConnected
  /\ streamRef # 0 => stream[streamRef] = "stopped"
  /\ inputAudioContextRef # 0 => ctxIn[inputAudioContextRef] = "closed"
  /\ outputAudioContextRef # 0 => ctxOut[outputAudioContextRef] = "closed"
  /\ sourcesRef = {}
  /\ nextStartTimeRef = 0

\* C9 -- a close event and an error event of a session leave the panel in the
\* state an explicit disconnect() leaves it in: 'disconnected', isConnected
\* false, the tracks stopped, both contexts closed, no source tracked, the
\* cursor at zero.
C9_CloseErrorAsDisconnect ==
  ev.op \in {"disconnect", "onclose", "onerror"} => TornDown

\* an error arrived in mid-session, with a segment playing
C9_Witness ==
  /\ ev.op = "onerror"
  /\ ev.pre = "connected"
  /\ stopped # {}
  /\ TornDown

\* C10 -- whenever the status is 'disconnected' after a connect attempt, no
\* stream the panel acquired is live, no context it created is running and no
\* session it opened is open.
C10_ResourcesReleased ==
  (status = "disconnected" /\ NextCall > 1) =>
    \A k \in Calls :
      /\ stream[k] # "live"
      /\ ctxIn[k] # "running"
      /\ ctxOut[k] # "running"
      /\ session[k] # "open"

\* C11 -- a send of one audio chunk that throws is dropped.  The step of the
\* audio callback in which it throws changes neither the status, isConnected,
\* the cursor, the tracked sources, any session, the attached processors nor
\* any input context (so the callback keeps firing), and the chunk handed by
\* the callback that fires next on an open session is handed under the same
\* status as before.
C11_SendFailureDropped ==
  [][ /\ (ev'.op = "onaudioprocess" /\ ev'.failed) =>
           /\ status' = status
           /\ isConnected' = isConnected
           /\ nextStartTimeRef' = nextStartTimeRef
           /\ sourcesRef' = sourcesRef
           /\ session' = session
           /\ processors' = processors
           /\ ctxIn' = ctxIn
      /\ (ev.failed /\ ev.pre = "connected" /\ ev'.op = "onaudioprocess") =>
           ev'.sentIn = "connected"
    ]_vars

\* a chunk was sent in a connected session right after the chunk before it
\* had failed
C11_Witness ==
  /\ ev.op = "onaudioprocess"
  /\ ev.afterFail
  /\ ~ev.failed
  /\ ev.sentIn = "connected"
  /\ status = "connected"

\* C12 -- no segment is scheduled in the past: when playAudio calls
\* source.start, the start time it passes (the last entry of `run`) is at
\* least the output clock at that moment.
C12_NeverInThePast ==
  ev.op = "playAudioResume" => run[Len(run)].start >= clock

\* the interval of the output clock during which a started source sounds: a
\* start time in the past makes it sound from the moment it is started
PlaysFrom(s) == s.end - s.dur

\* C13 -- scheduled segments never overlap: of any two sources in the
\* active-source set, one has finished sounding when the other begins.
C13_NoOverlap ==
  \A a \in sourcesRef : \A b \in sourcesRef :
    a # b => (a.end <= PlaysFrom(b) \/ b.end <= PlaysFrom(a))

\* the intervals [start, start + duration) of the start times passed to
\* source.start are disjoint: the overlap comes from starts in the past
ScheduledDisjoint ==
  \A a \in sourcesRef : \A b \in sourcesRef :
    a # b => (a.start + a.dur <= b.start \/ b.start + b.dur <= a.start)

\* C14 -- the active-source set holds exactly the sources that were started
\* and have neither ended nor been stopped (`playing`): a source is in it once
\* started, out of it once its ended event has fired, and the set is empty
\* after an interrupt and after a disconnect.
C14_ActiveSourcesExact ==
  /\ {s.id : s \in sourcesRef} = playing
  /\ ev.op = "playAudioResume" => ev.k \in {s.id : s \in sourcesRef}
  /\ ev.op = "onended" => ev.k \notin {s.id : s \in sourcesRef}
  /\ ev.op \in Teardowns \cup {"interrupt"} => sourcesRef = {}

\* one source has played to its end and left the set while another, started
\* after it, is still in it
C14_Witness ==
  /\ ev.op = "onended"
  /\ sourcesRef # {}
  /\ \A s \in sourcesRef : s.id > ev.k

\* the connect() calls whose session is being opened or is open
Opening == {k \in Calls : session[k] \in {"pending", "pendingClose", "open"}}

\* C15 -- the button serializes connect(): connect() only starts when the
\* status is 'disconnected', and at most one session is open or being opened.
C15_ConnectSerialized ==
  /\ ev.op = "connect" => ev.pre = "disconnected"
  /\ Cardinality(Opening) <= 1

\* C16 -- manual disconnect is always available: in every state other than
\* 'disconnected' the button runs disconnect(), that is, ClickDisconnect is
\* enabled (its guard is isConnected).
C16_DisconnectAvailable ==
  status # "disconnected" => ENABLED ClickDisconnect

\* C17 -- nothing is retried automatically: the sessions the panel has tried
\* to open never outnumber the connect() calls the user has made, and from an
\* error, a close or a failed connect until the user clicks connect again the
\* panel opens no session and hands no media to a session.
C17_NoAutomaticRetry ==
  [][ /\ Cardinality({k \in Calls : session'[k] # "none"}) <=
           Cardinality({k \in Calls : call'[k].pc # "idle"})
      /\ (ev.quiet /\ ev'.op # "connect") =>
           /\ ev'.op # "getUserMediaResolved"
           /\ ev'.sentIn = "none"
    ]_vars

\* C18 -- the first segment started after an interrupt starts at the current
\* clock, not at a cursor recorded earlier: its start time is a value the
\* output clock has had between the interrupt (ev.intr) and the call of
\* source.start.
C18_FirstAfterInterrupt ==
  [][ (ev.intr >= 0 /\ ev'.op = "playAudioResume") =>
        /\ run'[Len(run')].start >= ev.intr
        /\ run'[Len(run')].start <= clock'
    ]_vars

\* the handlers of the connect, session open, close, error and disconnect steps
StatusSteps ==
  {"connect", "connectCatch", "onopen", "onclose", "onerror", "handshakeError",
   "disconnect"}

\* C19 -- the status changes only in a connect, session open, close, error or
\* disconnect step (messages, interrupts, audio callbacks, video ticks, ended
\* events and decode completions leave it unchanged), and 'connected' is
\* entered only from 'connecting', by the session open event.
C19_StatusTransitions ==
  [][ /\ status' # status => ev'.op \in StatusSteps
      /\ (status' = "connected" /\ status # "connected") =>
           (status = "connecting" /\ ev'.op = "onopen")
    ]_vars

\* C20 -- a close or error event of a session the user has disconnected
\* (ev.left) does not tear down a session opened afterwards (the one now in
\* sessionPromiseRef, of a later connect() clicked in 'disconnected'): it
\* leaves the status, isConnected, every stream and context and that session
\* as they are.
C20_StaleCloseHarmless ==
  [][ \A k \in Calls :
        ( /\ ev'.op \in {"onclose", "onerror"}
          /\ ev'.k = k
          /\ k \in ev.left
          /\ sessionPromiseRef > k
          /\ call[sessionPromiseRef].status = "disconnected" ) =>
        /\ status' = status
        /\ isConnected' = isConnected
        /\ stream' = stream
        /\ ctxIn' = ctxIn
        /\ ctxOut' = ctxOut
        /\ session'[sessionPromiseRef] = session[sessionPromiseRef]
    ]_vars

\* C21 -- playAudio is one step with respect to interrupt and disconnect: the
\* handler that runs right after an interrupt or a disconnect() is not the
\* start of a segment (such a segment's message arrived before), and unless
\* it is a later message, the active-source set is still empty and the
\* cursor still zero after it.
C21_DecodeAtomic ==
  [][ (ev.op \in Teardowns \cup {"interrupt"} /\ ev'.op \notin {"audio", "interrupt"}) =>
        /\ ev'.op # "playAudioResume"
        /\ sourcesRef' = {}
        /\ nextStartTimeRef' = 0
    ]_vars

\* C22 -- the two view-state variables agree: isConnected is true exactly
\* when the status is 'connected'.
C22_ViewStateAgrees ==
  isConnected <=> (status = "connected")

\* C23 -- audioBufferToWav writes every sample frame, in order, into the data
\* chunk: for n frames and c channels the output has 44 + 2*n*c bytes, the
\* size field of the data chunk (at byte 40) is 2*n*c, and the 16-bit value at
\* byte 44 + 2*(k*c + j) is the scaled sample k of channel j.
C23_WavHoldsEveryFrame ==
  wav # <<>> =>
    LET n == buffer.length
        c == buffer.numberOfChannels
    IN  /\ wav[1].byteLength = 44 + 2 * n * c
        /\ wav[1].fields[40].data = 2 * n * c
        /\ \A k \in 0..(n - 1) : \A j \in 0..(c - 1) :
             wav[1].data[k * c + j] = scaleSample(getChannelData(buffer, j, k))

\* C24 -- at most one chat request is in flight: a send trigger that arrives
\* while a handleSend call is being processed appends no second user message
\* and issues no second sendChatMessage call, so no two requests wait for
\* their reply at once.
C24_OneRequestInFlight ==
  Cardinality({r \in sends : r.pc = "sending"}) <= 1

\* C25 -- changing the chat mode clears the conversation, and afterwards the
\* list holds only messages sent in the new mode: every message in the list
\* belongs to a handleSend call made in the current mode.
C25_ModeChangeClears ==
  /\ [][mode' # mode => messages' = <<>>]_vars
  /\ [](\A i \in 1..Len(messages) : messages[i].sentIn = mode)

\* C26 -- the options Reasoning, Search and Fast are mutually exclusive: at
\* most one of useThinking, useSearch and useFast is true; and a request
\* carries the search tool exactly when Search was on, and the thinking
\* budget exactly when Reasoning was on, in the render handleSend was called
\* from.
C26_OptionsExclusive ==
  /\ ~(useThinking /\ useSearch)
  /\ ~(useThinking /\ useFast)
  /\ ~(useSearch /\ useFast)
  /\ \A r \in sends :
       /\ r.config.googleSearch = r.useSearch
       /\ r.config.thinkingBudget = r.useThinking

\* a request with the search tool is waiting for its reply in Code mode,
\* after a change of mode, with Reasoning switched on since
C26_Witness ==
  /\ mode = "CODE"
  /\ useThinking
  /\ \E r \in sends :
       /\ r.pc = "sending"
       /\ r.mode = "CODE"
       /\ r.useSearch
       /\ r.config.googleSearch
       /\ ~r.config.thinkingBudget

\* C27 -- every chat request ends with exactly one model message appended
\* after its user message and with isLoading false: the step in which a
\* request settles appends one message to the list and removes none, that
\* message has the role 'model' and holds the reply text on success and a
\* text beginning with 'Error: ' on failure, the request's user message is in
\* the list before it, and isLoading is false afterwards.
C27_RequestEndsWithOneReply ==
  [][ \A r \in sends :
        (r.pc = "sending" /\ r \notin sends' /\ mode' = mode) =>
          /\ Len(messages') = Len(messages) + 1
          /\ SubSeq(messages', 1, Len(messages)) = messages
          /\ messages'[Len(messages')].role = "model"
          /\ messages'[Len(messages')].req = r.id
          /\ (messages'[Len(messages')].ok <=>
                Head(messages'[Len(messages')].text) # "Error: ")
          /\ Cardinality({i \in 1..Len(messages') :
                messages'[i].role = "model" /\ messages'[i].req = r.id}) = 1
          /\ \E i \in 1..Len(messages) :
                messages[i].role = "user" /\ messages[i].req = r.id
          /\ isLoading' = FALSE
    ]_vars

=============================================================================
